---- MODULE Spec2Model ----
(***************************************************************************)
(* Model of the tokenized real-estate ownership canister                   *)
(* (src/src/tokenized_real_estate_ownership_rust/src/lib.rs).              *)
(*                                                                         *)
(* State: the three stable structures of the canister (ID_COUNTER,         *)
(* STORAGE, USERS_STORAGE), the host clock read by time(), the value       *)
(* returned by the last call, and the set of ids handed out so far.        *)
(* Every update/query entry point is one action; the host runs one call    *)
(* to completion before the next, so an action is a whole call.            *)
(*                                                                         *)
(* Strings are drawn from small sets; "" is the empty string.  The msg     *)
(* text carried by an Error is not modelled, only its variant.             *)
(* Option<T> is a sequence of length 0 (None) or 1 (Some).                 *)
(*                                                                         *)
(* Not modelled: the trap of StableBTreeMap::insert on an entry whose      *)
(* encoding exceeds MAX_SIZE and the overflow of the u64 counter; the      *)
(* bounds below keep histories and ids far from both.                      *)
(***************************************************************************)
EXTENDS Integers, Sequences, FiniteSets, TLC

VARIABLES users, properties, id_counter, now, result, issued

vars == <<users, properties, id_counter, now, result, issued>>

\* ---------------------------------------------------------------- bounds
\* ids 0 .. MaxId-1 can be allocated (the u64 counter is capped here)
MaxId == 2
\* the histories of the stored properties hold at most MaxEntries entries in all
MaxEntries == 3
\* tokenized_shares and shares arguments range over 0 .. MaxShares
MaxShares == 2
\* the clock runs over 0 .. MaxTime
MaxTime == 1

\* ---------------------------------------------------------------- inputs
Principals == {"p1", "p2"}
Roles == {"owner", "admin", "user"}
Addresses == {"a1", "a2"}
Names == {"n1"}
Contacts == {"c1"}
ShareValues == 0 .. MaxShares
\* ids a call may name: once allocated, or (at first) not yet
Ids == 0 .. MaxId - 1

\* payloads: every share count with one address, the other address, and the
\* empty address
PropertyPayloads ==
    [address : {"a1"}, tokenized_shares : ShareValues]
        \cup [address : {"a2"}, tokenized_shares : {MaxShares}]
        \cup [address : {""}, tokenized_shares : {1}]

\* payloads: every role with the other fields set, and each field empty
UserPayloads ==
    [name : Names, contact_info : Contacts, role : Roles \cup {""}]
        \cup [name : {""}, contact_info : Contacts, role : {"owner"}]
        \cup [name : Names, contact_info : {""}, role : {"admin"}]
        \cup [name : {""}, contact_info : {""}, role : {""}]

\* ---------------------------------------------------------------- Option, Result
None == << >>

Some(x) == << x >>

unwrap_or(opt, default) == IF opt = None THEN default ELSE opt[1]

Ok(v) == [kind |-> "Ok", value |-> Some(v)]

Err(variant) == [kind |-> variant, value |-> None]

is_empty(s) == s = ""

\* ---------------------------------------------------------------- maps
EmptyMap == [k \in {} |-> 0]

map_get(m, k) == IF k \in DOMAIN m THEN Some(m[k]) ELSE None

map_insert(m, k, v) == [x \in DOMAIN m \cup {k} |-> IF x = k THEN v ELSE m[x]]

map_remove(m, k) == [x \in DOMAIN m \ {k} |-> m[x]]

\* slip: the key is the number of entries, not the property's id
do_insert_property_at_len(m, property) ==
    map_insert(m, Cardinality(DOMAIN m), property)

do_insert_property(m, property) == map_insert(m, property.id, property)

do_insert_user(m, user) == map_insert(m, user.id, user)

_get_property(id) == map_get(properties, id)

_get_user(id) == map_get(users, id)

\* slip: while no user is stored every caller counts as "admin"
get_user_role_bootstrap(user_id) ==
    LET u == map_get(users, user_id)
    IN  IF users = EmptyMap THEN Some("admin")
        ELSE IF u = None THEN None ELSE Some(u[1].role)

\* slip: a caller without a record is given the role "admin"
get_user_role_admin(user_id) ==
    LET u == map_get(users, user_id)
    IN  IF u = None THEN Some("admin") ELSE Some(u[1].role)

get_user_role(user_id) ==
    LET u == map_get(users, user_id)
    IN  IF u = None THEN None ELSE Some(u[1].role)

\* slip: the default role "user" passes every role check
role_is_lax(user_role, required) == user_role = required \/ user_role = "user"

\* the role comparison of the six role-gated entry points
role_is(user_role, required) == user_role = required

\* slip: the ownership comparison is left out
is_owner_any(property, caller) == TRUE

\* the ownership comparison of update_property and transfer_ownership
is_owner(property, caller) == property.owner_id = caller

\* ---------------------------------------------------------------- history
HistoryEntry(timestamp, event) == [timestamp |-> timestamp, event |-> event]

CreatedEvent == << "Property created" >>

UpdatedEvent == << "Property updated" >>

\* format!("Transferred {} shares to {}", shares, to)
TransferredEvent(shares, to) == << "Transferred", shares, to >>

\* ---------------------------------------------------------------- initial state
\* StableBTreeMap::init and Cell::init load what the stable memory holds; a
\* first installation starts from the empty maps and counter 0.  The user
\* records a start may find are those do_insert_user can have written
\* (key = id field).
StoredUsers ==
    UNION { { m \in [D -> [id : D, name : Names, contact_info : Contacts,
                           role : Roles]] :
                \A p \in D : m[p].id = p } : D \in SUBSET Principals }

Init ==
    /\ users \in StoredUsers
    /\ properties = EmptyMap
    /\ id_counter = 0
    /\ now = 0
    /\ result = [kind |-> "None", value |-> None]
    /\ issued = {}

\* ---------------------------------------------------------------- properties
\* slip: the counter is written back unchanged
next_counter_value_stuck(current_value) == current_value

\* the value add_property writes into ID_COUNTER
next_counter_value(current_value) == current_value + 1

\* slip: the id is the value written to the counter
allocated_id_new(current_value) == current_value + 1

\* Cell::set returns the value the cell held before the write, so the id of
\* the new property is the counter's value before the increment
allocated_id(current_value) == current_value

\* slip: the creation counts as the first update
new_property_stamped(id, caller, payload, t) ==
    [id |-> id,
     address |-> payload.address,
     tokenized_shares |-> payload.tokenized_shares,
     owner_id |-> caller,
     created_at |-> t,
     updated_at |-> Some(t),
     history |-> << HistoryEntry(t, CreatedEvent) >>]

new_property(id, caller, payload, t) ==
    [id |-> id,
     address |-> payload.address,
     tokenized_shares |-> payload.tokenized_shares,
     owner_id |-> caller,
     created_at |-> t,
     updated_at |-> None,
     history |-> << HistoryEntry(t, CreatedEvent) >>]

\* slip: the payload's address is stored even when it is empty
updated_address_always(address, payload) == payload.address

updated_address(address, payload) ==
    IF ~is_empty(payload.address) THEN payload.address ELSE address

updated_property(property, payload, t) ==
    [property EXCEPT
        !.address = updated_address(@, payload),
        !.tokenized_shares = payload.tokenized_shares,
        !.updated_at = Some(t),
        !.history = Append(@, HistoryEntry(t, UpdatedEvent))]

\* slip: the transferred shares are not taken off
remaining_shares_kept(tokenized_shares, shares) == tokenized_shares

remaining_shares(tokenized_shares, shares) == tokenized_shares - shares

\* slip: every transfer hands the property over
owner_after_transfer_always(owner_id, tokenized_shares, to) == to

owner_after_transfer(owner_id, tokenized_shares, to) ==
    IF tokenized_shares = 0 THEN to ELSE owner_id

\* slip: the history is replaced by the entry of the transfer
transferred_property_relogged(property, to, shares, t) ==
    LET left == remaining_shares(property.tokenized_shares, shares)
    IN  [property EXCEPT
            !.tokenized_shares = left,
            !.owner_id = owner_after_transfer(@, left, to),
            !.history = << HistoryEntry(t, TransferredEvent(shares, to)) >>]

transferred_property(property, to, shares, t) ==
    LET left == remaining_shares(property.tokenized_shares, shares)
    IN  [property EXCEPT
            !.tokenized_shares = left,
            !.owner_id = owner_after_transfer(@, left, to),
            !.history = Append(@, HistoryEntry(t, TransferredEvent(shares, to)))]

\* ---------------------------------------------------------------- entry points
\* Each entry point is an operator of the current state that yields the
\* call's outcome: the Result it returns and the contents of the three stable
\* structures when it returns.

\* an early return with an Error: nothing was written
Rejected(variant) ==
    [result |-> Err(variant), users |-> users, properties |-> properties,
     id_counter |-> id_counter]

get_property(id) ==
    LET found == _get_property(id)
    IN  IF found = None THEN Rejected("NotFound")
        ELSE [Rejected("") EXCEPT !.result = Ok(found[1])]

\* slip: the id is taken from the counter before the address is validated
add_property_counts_first(caller, payload) ==
    LET user_role == unwrap_or(get_user_role(caller), "user")
    IN  IF ~role_is(user_role, "owner") THEN Rejected("Unauthorized")
        ELSE IF is_empty(payload.address)
             THEN [Rejected("InvalidInput") EXCEPT
                      !.id_counter = next_counter_value(id_counter)]
        ELSE LET id == allocated_id(id_counter)
                 property == new_property(id, caller, payload, now)
             IN  [result |-> Ok(property),
                  users |-> users,
                  properties |-> do_insert_property(properties, property),
                  id_counter |-> next_counter_value(id_counter)]

add_property(caller, payload) ==
    LET user_role == unwrap_or(get_user_role(caller), "user")
    IN  IF ~role_is(user_role, "owner") THEN Rejected("Unauthorized")
        ELSE IF is_empty(payload.address) THEN Rejected("InvalidInput")
        ELSE LET id == allocated_id(id_counter)
                 property == new_property(id, caller, payload, now)
             IN  [result |-> Ok(property),
                  users |-> users,
                  properties |-> do_insert_property(properties, property),
                  id_counter |-> next_counter_value(id_counter)]

update_property(caller, id, payload) ==
    LET user_role == unwrap_or(get_user_role(caller), "user")
        found == map_get(properties, id)
    IN  IF ~role_is(user_role, "owner") THEN Rejected("Unauthorized")
        ELSE IF found = None THEN Rejected("NotFound")
        ELSE IF ~is_owner(found[1], caller) THEN Rejected("Unauthorized")
        ELSE LET property == updated_property(found[1], payload, now)
             IN  [result |-> Ok(property),
                  users |-> users,
                  properties |-> do_insert_property(properties, property),
                  id_counter |-> id_counter]

\* slip: the entry is looked up before the caller's role is checked
delete_property_lookup_first(caller, id) ==
    LET user_role == unwrap_or(get_user_role(caller), "user")
        removed == map_get(properties, id)
    IN  IF removed = None THEN Rejected("NotFound")
        ELSE IF ~role_is(user_role, "admin") THEN Rejected("Unauthorized")
        ELSE [result |-> Ok(removed[1]),
              users |-> users,
              properties |-> map_remove(properties, id),
              id_counter |-> id_counter]

delete_property(caller, id) ==
    LET user_role == unwrap_or(get_user_role(caller), "user")
        removed == map_get(properties, id)
    IN  IF ~role_is(user_role, "admin") THEN Rejected("Unauthorized")
        ELSE IF removed = None THEN Rejected("NotFound")
        ELSE [result |-> Ok(removed[1]),
              users |-> users,
              properties |-> map_remove(properties, id),
              id_counter |-> id_counter]

\* slip: a transfer of no shares is turned away
transfer_ownership_some_shares(caller, property_id, to, shares) ==
    LET found == map_get(properties, property_id)
    IN  IF found = None THEN Rejected("NotFound")
        ELSE IF ~is_owner(found[1], caller) THEN Rejected("Unauthorized")
        ELSE IF shares = 0 \/ shares > found[1].tokenized_shares
             THEN Rejected("InvalidInput")
        ELSE LET property == transferred_property(found[1], to, shares, now)
             IN  [result |-> Ok(property),
                  users |-> users,
                  properties |-> do_insert_property(properties, property),
                  id_counter |-> id_counter]

\* slip: the shares are compared before the owner is
transfer_ownership_shares_first(caller, property_id, to, shares) ==
    LET found == map_get(properties, property_id)
    IN  IF found = None THEN Rejected("NotFound")
        ELSE IF shares > found[1].tokenized_shares THEN Rejected("InvalidInput")
        ELSE IF ~is_owner(found[1], caller) THEN Rejected("Unauthorized")
        ELSE LET property == transferred_property(found[1], to, shares, now)
             IN  [result |-> Ok(property),
                  users |-> users,
                  properties |-> do_insert_property(properties, property),
                  id_counter |-> id_counter]

transfer_ownership(caller, property_id, to, shares) ==
    LET found == map_get(properties, property_id)
    IN  IF found = None THEN Rejected("NotFound")
        ELSE IF ~is_owner(found[1], caller) THEN Rejected("Unauthorized")
        ELSE IF shares > found[1].tokenized_shares THEN Rejected("InvalidInput")
        ELSE LET property == transferred_property(found[1], to, shares, now)
             IN  [result |-> Ok(property),
                  users |-> users,
                  properties |-> do_insert_property(properties, property),
                  id_counter |-> id_counter]

new_user(caller, payload) ==
    [id |-> caller,
     name |-> payload.name,
     contact_info |-> payload.contact_info,
     role |-> payload.role]

updated_user(user, payload) ==
    [user EXCEPT
        !.name = IF ~is_empty(payload.name) THEN payload.name ELSE @,
        !.contact_info =
            IF ~is_empty(payload.contact_info) THEN payload.contact_info ELSE @,
        !.role = IF ~is_empty(payload.role) THEN payload.role ELSE @]

get_user(id) ==
    LET found == _get_user(id)
    IN  IF found = None THEN Rejected("NotFound")
        ELSE [Rejected("") EXCEPT !.result = Ok(found[1])]

add_user(caller, payload) ==
    LET user_role == unwrap_or(get_user_role(caller), "user")
    IN  IF ~role_is(user_role, "admin") THEN Rejected("Unauthorized")
        ELSE IF \/ is_empty(payload.name)
                \/ is_empty(payload.contact_info)
                \/ is_empty(payload.role) THEN Rejected("InvalidInput")
        ELSE LET user == new_user(caller, payload)
             IN  [result |-> Ok(user),
                  users |-> do_insert_user(users, user),
                  properties |-> properties,
                  id_counter |-> id_counter]

\* slip: an id without a record gets one
update_user_upsert(caller, id, payload) ==
    LET user_role == unwrap_or(get_user_role(caller), "user")
        found == map_get(users, id)
    IN  IF ~role_is(user_role, "admin") THEN Rejected("Unauthorized")
        ELSE LET user == IF found = None THEN new_user(id, payload)
                         ELSE updated_user(found[1], payload)
             IN  [result |-> Ok(user),
                  users |-> do_insert_user(users, user),
                  properties |-> properties,
                  id_counter |-> id_counter]

update_user(caller, id, payload) ==
    LET user_role == unwrap_or(get_user_role(caller), "user")
        found == map_get(users, id)
    IN  IF ~role_is(user_role, "admin") THEN Rejected("Unauthorized")
        ELSE IF found = None THEN Rejected("NotFound")
        ELSE LET user == updated_user(found[1], payload)
             IN  [result |-> Ok(user),
                  users |-> do_insert_user(users, user),
                  properties |-> properties,
                  id_counter |-> id_counter]

delete_user(caller, id) ==
    LET user_role == unwrap_or(get_user_role(caller), "user")
        removed == map_get(users, id)
    IN  IF ~role_is(user_role, "admin") THEN Rejected("Unauthorized")
        ELSE IF removed = None THEN Rejected("NotFound")
        ELSE [result |-> Ok(removed[1]),
              users |-> map_remove(users, id),
              properties |-> properties,
              id_counter |-> id_counter]

\* ---------------------------------------------------------------- actions
\* The host runs one call to completion before the next: a call is one step,
\* which leaves the outcome of its entry point in the state.
Commit(out) ==
    /\ result' = out.result
    /\ users' = out.users
    /\ properties' = out.properties
    /\ id_counter' = out.id_counter
    /\ UNCHANGED now

GetProperty(id) == Commit(get_property(id)) /\ UNCHANGED issued

\* issued collects the ids successful add_property calls have returned
AddProperty(caller, payload) ==
    LET out == add_property(caller, payload)
    IN  /\ Commit(out)
        /\ issued' = IF out.result.kind = "Ok"
                     THEN issued \cup {out.result.value[1].id}
                     ELSE issued

UpdateProperty(caller, id, payload) ==
    Commit(update_property(caller, id, payload)) /\ UNCHANGED issued

DeleteProperty(caller, id) ==
    Commit(delete_property(caller, id)) /\ UNCHANGED issued

TransferOwnership(caller, property_id, to, shares) ==
    Commit(transfer_ownership(caller, property_id, to, shares))
        /\ UNCHANGED issued

GetUser(id) == Commit(get_user(id)) /\ UNCHANGED issued

AddUser(caller, payload) == Commit(add_user(caller, payload)) /\ UNCHANGED issued

UpdateUser(caller, id, payload) ==
    Commit(update_user(caller, id, payload)) /\ UNCHANGED issued

DeleteUser(caller, id) == Commit(delete_user(caller, id)) /\ UNCHANGED issued

\* time() never runs backwards between calls
Tick ==
    /\ now < MaxTime
    /\ now' = now + 1
    /\ UNCHANGED <<users, properties, id_counter, result, issued>>

\* ---------------------------------------------------------------- specification
\* The callers stop allocating at MaxId ids, and make no call that would
\* bring the histories of the stored properties above MaxEntries entries in
\* all; calls that fail are never held back.
RECURSIVE Entries(_, _)
Entries(m, ids) ==
    IF ids = {} THEN 0
    ELSE LET id == CHOOSE x \in ids : TRUE
         IN  Len(m[id].history) + Entries(m, ids \ {id})

CounterFits == id_counter' <= MaxId

HistoryFits == Entries(properties', DOMAIN properties') <= MaxEntries

Next ==
    \/ \E id \in Ids : GetProperty(id)
    \/ \E caller \in Principals, payload \in PropertyPayloads :
            AddProperty(caller, payload) /\ CounterFits /\ HistoryFits
    \/ \E caller \in Principals, id \in Ids, payload \in PropertyPayloads :
            UpdateProperty(caller, id, payload) /\ HistoryFits
    \/ \E caller \in Principals, id \in Ids : DeleteProperty(caller, id)
    \/ \E id \in Principals : GetUser(id)
    \/ \E caller \in Principals, payload \in UserPayloads :
            AddUser(caller, payload)
    \/ \E caller \in Principals, id \in Principals, payload \in UserPayloads :
            UpdateUser(caller, id, payload)
    \/ \E caller \in Principals, id \in Principals : DeleteUser(caller, id)
    \/ \E caller \in Principals, property_id \in Ids, to \in Principals,
          shares \in ShareValues :
            TransferOwnership(caller, property_id, to, shares) /\ HistoryFits

\* Spec: the clock stands still at its initial value between the calls
Spec == Init /\ [][Next]_vars

\* SpecClock: the clock may advance between the calls, and the callers stop
\* allocating after the first id
FirstIdOnly == id_counter' <= 1

NextClock ==
    \/ \E id \in Ids : GetProperty(id)
    \/ \E caller \in Principals, payload \in PropertyPayloads :
            AddProperty(caller, payload) /\ FirstIdOnly /\ HistoryFits
    \/ \E caller \in Principals, id \in Ids, payload \in PropertyPayloads :
            UpdateProperty(caller, id, payload) /\ HistoryFits
    \/ \E caller \in Principals, id \in Ids : DeleteProperty(caller, id)
    \/ \E id \in Principals : GetUser(id)
    \/ \E caller \in Principals, payload \in UserPayloads :
            AddUser(caller, payload)
    \/ \E caller \in Principals, id \in Principals, payload \in UserPayloads :
            UpdateUser(caller, id, payload)
    \/ \E caller \in Principals, id \in Principals : DeleteUser(caller, id)
    \/ \E caller \in Principals, property_id \in Ids, to \in Principals,
          shares \in ShareValues :
            TransferOwnership(caller, property_id, to, shares) /\ HistoryFits
    \/ Tick

SpecClock == Init /\ [][NextClock]_vars

\* SpecScenario: a registry without properties whose only user record gives
\* ScenarioCaller the role "owner"; that caller adds properties of
\* 100 shares and transfers shares of them, in any order
ScenarioCaller == "p1"

ScenarioShares == {1, 40, 60, 100}

InitScenario ==
    /\ users = [p \in {ScenarioCaller} |->
                  [id |-> p, name |-> "n1", contact_info |-> "c1",
                   role |-> "owner"]]
    /\ properties = EmptyMap
    /\ id_counter = 0
    /\ now = 0
    /\ result = [kind |-> "None", value |-> None]
    /\ issued = {}

ScenarioFits == Entries(properties', DOMAIN properties') <= MaxEntries + 1

NextScenario ==
    \/ \E payload \in [address : {"a1"}, tokenized_shares : {100}] :
            AddProperty(ScenarioCaller, payload) /\ CounterFits /\ ScenarioFits
    \/ \E property_id \in Ids, to \in Principals, shares \in ScenarioShares :
            TransferOwnership(ScenarioCaller, property_id, to, shares)
                /\ ScenarioFits

SpecScenario == InitScenario /\ [][NextScenario]_vars

\* ---------------------------------------------------------------- claims
HasRole(caller, role) == caller \in DOMAIN users /\ users[caller].role = role

Stored(id) == id \in DOMAIN properties

IsError(res) == res.kind \in {"NotFound", "InvalidInput", "Unauthorized"}

\* C1: every successful add_property returns an id strictly greater than
\* every id a successful add_property returned before (so a deleted
\* property's id is never handed out again), and the id counter never
\* decreases, whatever calls come in between.
C1_IdsStrictlyIncrease ==
    /\ [](\A caller \in Principals, payload \in PropertyPayloads :
            LET out == add_property(caller, payload)
            IN  out.result.kind = "Ok" =>
                  /\ \A earlier \in issued : out.result.value[1].id > earlier
                  /\ ~Stored(out.result.value[1].id))
    /\ [][id_counter' >= id_counter]_vars

\* two ids were handed out, the first one was deleted, and the second add
\* has just returned
C1_Witness ==
    /\ issued = {0, 1}
    /\ DOMAIN properties = {1}
    /\ result = Ok(properties[1])
    /\ Len(properties[1].history) = 1

\* C2: transfer_ownership(P.id, to, S) called by P's owner, P holding T
\* shares: S = T stores owner_id = to and 0 shares; 0 < S < T keeps the owner
\* and stores T - S shares; S > T returns InvalidInput and stores P as it was.
C2_TransferCases ==
    \A id \in DOMAIN properties, to \in Principals, S \in ShareValues :
        LET P == properties[id]
            T == P.tokenized_shares
            out == transfer_ownership(P.owner_id, id, to, S)
        IN  /\ id \in DOMAIN out.properties
            /\ (S = T) =>
                  /\ out.properties[id].owner_id = to
                  /\ out.properties[id].tokenized_shares = 0
            /\ (0 < S /\ S < T) =>
                  /\ out.properties[id].owner_id = P.owner_id
                  /\ out.properties[id].tokenized_shares = T - S
            /\ (S > T) =>
                  /\ out.result = Err("InvalidInput")
                  /\ out.properties[id] = P

\* the owner has just handed all MaxShares shares of a property to p2
C2_Witness ==
    \E id \in DOMAIN properties :
        /\ Len(properties[id].history) = 2
        /\ properties[id].history[2].event = TransferredEvent(MaxShares, "p2")
        /\ properties[id].owner_id = "p2"
        /\ properties[id].tokenized_shares = 0
        /\ result = Ok(properties[id])

\* a call's outcome leaves the three stable structures as they are
Untouched(out) ==
    /\ out.users = users
    /\ out.properties = properties
    /\ out.id_counter = id_counter

\* the step is a successful transfer_ownership on property id
TransferStep(id) ==
    \E caller \in Principals, to \in Principals, shares \in ShareValues :
        LET out == transfer_ownership(caller, id, to, shares)
        IN  /\ out.result.kind = "Ok"
            /\ result' = out.result
            /\ properties' = out.properties

\* C3 (as claimed): a property that stays stored never gains shares, and its
\* share count changes only in a successful transfer_ownership step (so
\* update_property neither changes nor raises it).
C3_SharesOnlyFallByTransfer ==
    [][ \A id \in DOMAIN properties \cap DOMAIN properties' :
          /\ properties'[id].tokenized_shares <= properties[id].tokenized_shares
          /\ properties'[id].tokenized_shares # properties[id].tokenized_shares
                => TransferStep(id)
      ]_vars

\* C4: the owner_id of a stored property changes only in a successful
\* transfer_ownership on that property that leaves it with exactly 0 shares;
\* update_property, add_user, update_user, delete_user and every failed call
\* leave the owner_id of every stored property as it was.
SameOwners(out) ==
    \A id \in DOMAIN properties \cap DOMAIN out.properties :
        out.properties[id].owner_id = properties[id].owner_id

C4_OwnerChangesOnlyAtZero ==
    /\ [](/\ \A caller \in Principals, id \in Ids,
                payload \in PropertyPayloads :
                SameOwners(update_property(caller, id, payload))
          /\ \A caller \in Principals, id \in Principals,
                payload \in UserPayloads :
                /\ SameOwners(add_user(caller, payload))
                /\ SameOwners(update_user(caller, id, payload))
                /\ SameOwners(delete_user(caller, id)))
    /\ [][ \A id \in DOMAIN properties \cap DOMAIN properties' :
             properties'[id].owner_id # properties[id].owner_id =>
                /\ TransferStep(id)
                /\ properties'[id].tokenized_shares = 0
                /\ ~IsError(result')
         ]_vars

\* a transfer of the last share has just made p1 the owner of a property
\* while the other property is stored next to it
C4_Witness ==
    /\ DOMAIN properties = {0, 1}
    /\ \E id \in DOMAIN properties :
        /\ Len(properties[id].history) = 2
        /\ properties[id].history[2].event = TransferredEvent(1, "p1")
        /\ properties[id].owner_id = "p1"
        /\ properties[id].tokenized_shares = 0
        /\ result = Ok(properties[id])

\* C5: add_property by a caller whose stored role is "user" returns
\* Unauthorized and creates nothing; the same payload, its address not empty,
\* from a caller whose stored role is "owner" succeeds and stores a new
\* property.
C5_AddPropertyRole ==
    \A caller \in Principals, payload \in PropertyPayloads :
        LET out == add_property(caller, payload)
        IN  /\ HasRole(caller, "user") =>
                  /\ out.result = Err("Unauthorized")
                  /\ Untouched(out)
            /\ (HasRole(caller, "owner") /\ payload.address # "") =>
                  /\ out.result.kind = "Ok"
                  /\ LET P == out.result.value[1]
                     IN  /\ ~Stored(P.id)
                         /\ DOMAIN out.properties = DOMAIN properties \cup {P.id}
                         /\ out.properties[P.id] = P
                         /\ P.address = payload.address
                         /\ P.tokenized_shares = payload.tokenized_shares
                         /\ \A id \in DOMAIN properties :
                               out.properties[id] = properties[id]

\* an owner-role caller has just added a property while the other principal
\* holds the role "user"
C5_Witness ==
    \E id \in DOMAIN properties :
        /\ result = Ok(properties[id])
        /\ Len(properties[id].history) = 1
        /\ HasRole(properties[id].owner_id, "owner")
        /\ \E other \in Principals : HasRole(other, "user")

\* C6: add_property and update_property return Unauthorized unless the
\* caller's stored role is "owner"; add_user, update_user, delete_user and
\* delete_property return Unauthorized unless it is "admin"; a caller without
\* a user record is rejected with Unauthorized by all six.
OwnerGated(caller) ==
    \A id \in Ids, payload \in PropertyPayloads :
        /\ add_property(caller, payload).result = Err("Unauthorized")
        /\ update_property(caller, id, payload).result = Err("Unauthorized")

AdminGated(caller) ==
    /\ \A id \in Principals, payload \in UserPayloads :
        /\ add_user(caller, payload).result = Err("Unauthorized")
        /\ update_user(caller, id, payload).result = Err("Unauthorized")
        /\ delete_user(caller, id).result = Err("Unauthorized")
    /\ \A id \in Ids : delete_property(caller, id).result = Err("Unauthorized")

C6_RoleGate ==
    \A caller \in Principals :
        /\ ~HasRole(caller, "owner") => OwnerGated(caller)
        /\ ~HasRole(caller, "admin") => AdminGated(caller)
        /\ caller \notin DOMAIN users => OwnerGated(caller) /\ AdminGated(caller)

\* no principal has a user record, a property is stored, and the last call
\* was rejected with Unauthorized
C6_Witness ==
    /\ users = EmptyMap
    /\ properties # EmptyMap
    /\ result = Err("Unauthorized")

\* C7: update_property and transfer_ownership on a stored property whose
\* owner_id is not the caller return Unauthorized and leave the property as
\* it was, whatever the caller's role; update_property mutates only when the
\* role check and the ownership check both pass.
C7_OwnershipGate ==
    /\ \A id \in DOMAIN properties, caller \in Principals :
          properties[id].owner_id # caller =>
              /\ \A payload \in PropertyPayloads :
                    LET out == update_property(caller, id, payload)
                    IN  /\ out.result = Err("Unauthorized")
                        /\ out.properties[id] = properties[id]
              /\ \A to \in Principals, shares \in ShareValues :
                    LET out == transfer_ownership(caller, id, to, shares)
                    IN  /\ out.result = Err("Unauthorized")
                        /\ out.properties[id] = properties[id]
    /\ \A id \in Ids, caller \in Principals, payload \in PropertyPayloads :
          LET out == update_property(caller, id, payload)
          IN  (out.properties # properties \/ out.result.kind = "Ok") =>
                  /\ HasRole(caller, "owner")
                  /\ Stored(id)
                  /\ properties[id].owner_id = caller

\* a property is stored whose owner is p1, p2 holds the role "owner" and p1
\* the role "admin", and the last call was rejected with Unauthorized
C7_Witness ==
    /\ \E id \in DOMAIN properties : properties[id].owner_id = "p1"
    /\ HasRole("p2", "owner")
    /\ HasRole("p1", "admin")
    /\ result = Err("Unauthorized")

\* C8: a call of any entry point that returns an error (NotFound,
\* InvalidInput or Unauthorized) leaves the properties map, the users map
\* and the id counter as they were.
C8_ErrorsChangeNothing ==
    [][ IsError(result') =>
            /\ users' = users
            /\ properties' = properties
            /\ id_counter' = id_counter
      ]_vars

\* one property is stored and the last call was rejected with InvalidInput
C8_Witness ==
    /\ DOMAIN properties = {0}
    /\ id_counter = 1
    /\ result = Err("InvalidInput")

\* C9: a successful update_property(id, payload) keeps the stored address
\* when payload.address is empty and stores payload.address otherwise; it
\* keeps the property's id, owner_id and created_at and every other property.
C9_UpdatePropertyFrame ==
    \A caller \in Principals, id \in Ids, payload \in PropertyPayloads :
        LET out == update_property(caller, id, payload)
        IN  out.result.kind = "Ok" =>
              /\ Stored(id)
              /\ DOMAIN out.properties = DOMAIN properties
              /\ out.properties[id].address =
                    (IF payload.address = "" THEN properties[id].address
                     ELSE payload.address)
              /\ out.properties[id].id = properties[id].id
              /\ out.properties[id].owner_id = properties[id].owner_id
              /\ out.properties[id].created_at = properties[id].created_at
              /\ \A other \in DOMAIN properties \ {id} :
                    out.properties[other] = properties[other]

\* a property created at address a2 has just been updated with an empty
\* address, next to another stored property
C9_Witness ==
    /\ DOMAIN properties = {0, 1}
    /\ \E id \in DOMAIN properties :
        /\ Len(properties[id].history) = 2
        /\ properties[id].history[2].event = UpdatedEvent
        /\ properties[id].address = "a2"
        /\ properties[id].tokenized_shares = 1
        /\ result = Ok(properties[id])

\* C10 (as claimed): delete_property on an id without an entry returns
\* NotFound and leaves the counter, the properties and the users as they were.
C10_DeleteUnknownNotFound ==
    \A caller \in Principals, id \in Ids :
        ~Stored(id) =>
            LET out == delete_property(caller, id)
            IN  out.result = Err("NotFound") /\ Untouched(out)

\* C10 (amended): delete_property on an id without an entry returns NotFound
\* to a caller whose stored role is "admin" and Unauthorized to every other
\* caller, and leaves the counter, the properties and the users as they were.
C10_DeleteUnknownByAdmin ==
    \A caller \in Principals, id \in Ids :
        ~Stored(id) =>
            LET out == delete_property(caller, id)
            IN  /\ out.result = (IF HasRole(caller, "admin")
                                 THEN Err("NotFound")
                                 ELSE Err("Unauthorized"))
                /\ Untouched(out)

\* every principal is an admin, the only id handed out is stored no more,
\* and the last call was rejected with NotFound
C10_Witness ==
    /\ \A p \in Principals : HasRole(p, "admin")
    /\ issued = {0}
    /\ properties = EmptyMap
    /\ result = Err("NotFound")

\* The scenario of C11 on the property with id first: the ids the adds
\* return, the two transfers, and the refusal of a third one (always with
\* InvalidInput, or with the error the checks of transfer_ownership give).
ScenarioHolds(first, always_invalid) ==
    /\ issued # {} => first \in issued /\ \A id \in issued : id >= first
    /\ Cardinality(issued) = 2 => issued = {first, first + 1}
    /\ \A to \in Principals :
         first \in DOMAIN properties =>
           LET P == properties[first]
               h == P.history
           IN  /\ Len(h) = 1 =>
                     LET out == transfer_ownership(ScenarioCaller, first, to,
                                                   40)
                         Q == out.properties[first]
                     IN  /\ out.result = Ok(Q)
                         /\ Q.tokenized_shares = 60
                         /\ Q.owner_id = P.owner_id
                         /\ Len(Q.history) = 2
               /\ (Len(h) = 2 /\ h[2].event = TransferredEvent(40, to)) =>
                     LET out == transfer_ownership(ScenarioCaller, first, to,
                                                   60)
                         Q == out.properties[first]
                     IN  /\ out.result = Ok(Q)
                         /\ Q.tokenized_shares = 0
                         /\ Q.owner_id = to
                         /\ Len(Q.history) = 3
               /\ ( /\ Len(h) = 3
                    /\ h[2].event = TransferredEvent(40, to)
                    /\ h[3].event = TransferredEvent(60, to) ) =>
                     LET out == transfer_ownership(ScenarioCaller, first, to, 1)
                     IN  /\ out.result =
                               (IF always_invalid \/ to = ScenarioCaller
                                THEN Err("InvalidInput")
                                ELSE Err("Unauthorized"))
                         /\ Untouched(out)

\* C11 (as claimed): from a registry without properties, one owner-role
\* caller: the adds return ids 1 and 2; transfer_ownership(1, to, 40) leaves
\* 60 shares, the owner and a history of 2; transfer_ownership(1, to, 60)
\* leaves 0 shares, owner to and a history of 3; transfer_ownership(1, to, 1)
\* then fails with InvalidInput.
C11_ScenarioFromOne == ScenarioHolds(1, TRUE)

\* C11 (amended): the adds return ids 0 and 1, the transfers are made on
\* property 0, and the last transfer fails with Unauthorized when to is not
\* the caller (the caller owns the property no more) and with InvalidInput
\* when to is the caller.
C11_ScenarioFromZero == ScenarioHolds(0, FALSE)

\* both properties are stored, property 0 went to p2 in transfers of 40 and
\* 60 shares, and the caller's next transfer was rejected with Unauthorized
C11_Witness ==
    /\ DOMAIN properties = {0, 1}
    /\ Len(properties[0].history) = 3
    /\ properties[0].history[2].event = TransferredEvent(40, "p2")
    /\ properties[0].history[3].event = TransferredEvent(60, "p2")
    /\ properties[0].owner_id = "p2"
    /\ properties[0].tokenized_shares = 0
    /\ result = Err("Unauthorized")

IsPrefix(s, t) == Len(s) <= Len(t) /\ SubSeq(t, 1, Len(s)) = s

\* the entries are stamped no earlier than the creation and in time order
HistoryInOrder(property) ==
    \A i \in 1..Len(property.history) :
        /\ property.history[i].timestamp >= property.created_at
        /\ i > 1 => property.history[i - 1].timestamp
                        <= property.history[i].timestamp

\* a call's outcome that succeeded on property id added one entry to its
\* history and kept the entries it had
OneEntryMore(out, id) ==
    out.result.kind = "Ok" =>
        /\ Len(out.properties[id].history) = Len(properties[id].history) + 1
        /\ IsPrefix(properties[id].history, out.properties[id].history)

\* C12: the history of a property that stays stored across an operation is
\* a prefix of its history after the operation; every successful
\* update_property or transfer_ownership appends exactly one entry; and while
\* the clock does not run backwards every entry's timestamp is >= created_at
\* and the entries are in non-decreasing timestamp order.
C12_HistoryAppendOnly ==
    /\ [](\A id \in DOMAIN properties :
            /\ HistoryInOrder(properties[id])
            /\ \A caller \in Principals :
                 /\ \A payload \in PropertyPayloads :
                        OneEntryMore(update_property(caller, id, payload), id)
                 /\ \A to \in Principals, shares \in ShareValues :
                        OneEntryMore(transfer_ownership(caller, id, to, shares),
                                     id))
    /\ [][\A id \in DOMAIN properties \cap DOMAIN properties' :
            IsPrefix(properties[id].history, properties'[id].history)]_vars

\* a property created at time 0 was updated at time 0 and transferred after
\* the clock advanced
C12_Witness ==
    \E id \in DOMAIN properties :
        /\ Len(properties[id].history) = 3
        /\ properties[id].history[2] = HistoryEntry(0, UpdatedEvent)
        /\ properties[id].history[3].timestamp = MaxTime
        /\ properties[id].history[3].event[1] = "Transferred"
        /\ result = Ok(properties[id])

\* a call's outcome that succeeded on property id kept its created_at and
\* stamped its updated_at with the time of the call
Stamped(out, id) ==
    out.result.kind = "Ok" =>
        /\ out.properties[id].created_at = properties[id].created_at
        /\ out.properties[id].updated_at = Some(now)

\* C13: created_at of a stored property never changes; updated_at is None
\* from the creation until the first successful update_property or
\* transfer_ownership on the property, and after every such call it is the
\* time of that call.
C13_UpdatedAtFollowsMutations ==
    /\ \A id \in DOMAIN properties :
         /\ Len(properties[id].history) = 1 => properties[id].updated_at = None
         /\ \A caller \in Principals :
              /\ \A payload \in PropertyPayloads :
                     Stamped(update_property(caller, id, payload), id)
              /\ \A to \in Principals, shares \in ShareValues :
                     Stamped(transfer_ownership(caller, id, to, shares), id)
    /\ \A caller \in Principals, payload \in PropertyPayloads :
         LET out == add_property(caller, payload)
         IN  out.result.kind = "Ok" =>
                 /\ out.result.value[1].created_at = now
                 /\ out.result.value[1].updated_at = None

\* C14: add_property by a caller with role "owner": an empty address returns
\* InvalidInput and leaves the id counter (and everything else) as it was; a
\* non-empty address moves the counter by exactly one and stores, under the
\* returned id, a property with that id, the payload's address and
\* tokenized_shares, owner_id = caller, updated_at = None and a history of
\* the one "Property created" entry; get_property(id) then returns that
\* property.
C14_AddPropertyStores ==
    /\ [](\A caller \in Principals, payload \in PropertyPayloads :
            HasRole(caller, "owner") =>
                LET out == add_property(caller, payload)
                IN  IF payload.address = ""
                    THEN out.result = Err("InvalidInput") /\ Untouched(out)
                    ELSE /\ out.result.kind = "Ok"
                         /\ out.id_counter = id_counter + 1
                         /\ out.users = users
                         /\ LET id == out.result.value[1].id
                            IN  /\ DOMAIN out.properties
                                       = DOMAIN properties \cup {id}
                                /\ \A other \in DOMAIN properties \ {id} :
                                       out.properties[other] = properties[other]
                                /\ out.result = Ok(out.properties[id])
                                /\ out.properties[id] =
                                       [id |-> id,
                                        address |-> payload.address,
                                        tokenized_shares |->
                                            payload.tokenized_shares,
                                        owner_id |-> caller,
                                        created_at |-> now,
                                        updated_at |-> None,
                                        history |->
                                            << HistoryEntry(now, CreatedEvent) >>])
    /\ [][\A id \in Ids :
            (id_counter' # id_counter /\ result'.value[1].id = id) =>
                (get_property(id).result)' = result']_vars

\* a second property was just added next to the first one and get_property
\* returns it as add_property did
C14_Witness ==
    /\ DOMAIN properties = {0, 1}
    /\ id_counter = 2
    /\ result = Ok(properties[1])
    /\ properties[1].updated_at = None
    /\ properties[1].history = << HistoryEntry(now, CreatedEvent) >>
    /\ get_property(1).result = result

\* C16: transfer_ownership checks existence, then ownership, then the
\* shares: NotFound for an id that is not stored, whoever calls; else
\* Unauthorized for a caller that is not the owner, whatever the shares; else
\* InvalidInput for shares > tokenized_shares; else it succeeds and writes
\* the property, whether or not the caller has a user record or a role.
C16_TransferCheckOrder ==
    \A caller \in Principals, id \in Ids, to \in Principals,
       shares \in ShareValues :
        LET out == transfer_ownership(caller, id, to, shares)
        IN  /\ IsError(out.result) => Untouched(out)
            /\ IF ~Stored(id) THEN out.result = Err("NotFound")
               ELSE IF properties[id].owner_id # caller
                    THEN out.result = Err("Unauthorized")
               ELSE IF shares > properties[id].tokenized_shares
                    THEN out.result = Err("InvalidInput")
               ELSE /\ out.result = Ok(out.properties[id])
                    /\ out.properties # properties
                    /\ out.users = users
                    /\ out.id_counter = id_counter

\* a transfer succeeded although no principal has a user record
C16_Witness ==
    /\ users = EmptyMap
    /\ \E id \in DOMAIN properties :
         /\ result = Ok(properties[id])
         /\ Len(properties[id].history) > 1
         /\ properties[id].history[Len(properties[id].history)].event[1]
                = "Transferred"

\* C17: the set of principals with a user record never gains a member.  A
\* successful add_user comes from a caller whose stored role is "admin" and
\* replaces that caller's own record by the payload's (role included);
\* update_user keeps the key set; delete_user shrinks it; the entry points
\* on properties leave the users alone; each record's id is its key.
C17_UserKeysNeverGrow ==
    /\ [](/\ \A p \in DOMAIN users : users[p].id = p
          /\ \A caller \in Principals, payload \in UserPayloads :
               LET out == add_user(caller, payload)
               IN  IF out.result.kind = "Ok"
                   THEN /\ HasRole(caller, "admin")
                        /\ DOMAIN out.users = DOMAIN users
                        /\ out.users[caller] =
                               [id |-> caller,
                                name |-> payload.name,
                                contact_info |-> payload.contact_info,
                                role |-> payload.role]
                        /\ out.result = Ok(out.users[caller])
                        /\ \A p \in DOMAIN users \ {caller} :
                               out.users[p] = users[p]
                   ELSE out.users = users
          /\ \A caller \in Principals, id \in Principals :
               /\ \A payload \in UserPayloads :
                      LET out == update_user(caller, id, payload)
                      IN  /\ DOMAIN out.users = DOMAIN users
                          /\ \A p \in DOMAIN users : out.users[p].id = p
               /\ LET out == delete_user(caller, id)
                  IN  IF out.result.kind = "Ok"
                      THEN DOMAIN out.users = DOMAIN users \ {id}
                      ELSE out.users = users
          /\ \A caller \in Principals, id \in Ids :
               /\ delete_property(caller, id).users = users
               /\ \A payload \in PropertyPayloads :
                      /\ add_property(caller, payload).users = users
                      /\ update_property(caller, id, payload).users = users
               /\ \A to \in Principals, shares \in ShareValues :
                      transfer_ownership(caller, id, to, shares).users = users)
    /\ [][DOMAIN users' \subseteq DOMAIN users]_vars

\* the principal that created a property as "owner" now holds the role
\* "user", and the admin's record that changed it has been deleted
C17_Witness ==
    /\ DOMAIN users = {"p1"}
    /\ users["p1"].role = "user"
    /\ result = Ok(users["p1"])
    /\ \E id \in DOMAIN properties :
         /\ properties[id].owner_id = "p1"
         /\ Len(properties[id].history) = 1

\* the state of a first installation: no user, no property, counter 0
Fresh == users = EmptyMap /\ properties = EmptyMap /\ id_counter = 0

\* C18: from the state without users and properties and with counter 0 the
\* public operations reach no other contents: add_user, update_user,
\* delete_user, add_property, update_property and delete_property return
\* Unauthorized and transfer_ownership returns NotFound for every caller and
\* payload, and both maps stay empty and the counter stays 0.
C18_FreshStaysFresh ==
    /\ [](Fresh =>
            \A caller \in Principals :
                /\ \A id \in Principals, payload \in UserPayloads :
                     /\ add_user(caller, payload).result = Err("Unauthorized")
                     /\ update_user(caller, id, payload).result
                            = Err("Unauthorized")
                     /\ delete_user(caller, id).result = Err("Unauthorized")
                /\ \A id \in Ids :
                     /\ delete_property(caller, id).result = Err("Unauthorized")
                     /\ \A payload \in PropertyPayloads :
                          /\ add_property(caller, payload).result
                                 = Err("Unauthorized")
                          /\ update_property(caller, id, payload).result
                                 = Err("Unauthorized")
                     /\ \A to \in Principals, shares \in ShareValues :
                          transfer_ownership(caller, id, to, shares).result
                              = Err("NotFound"))
    /\ [][Fresh => Fresh']_vars

\* a call on the registry that never held a property was turned away with
\* NotFound, and it is as empty as before
C18_Witness == Fresh /\ issued = {} /\ result = Err("NotFound")

\* C19: on a stored property holding 0 shares, transfer_ownership(id, to, 0)
\* called by the owner succeeds: the shares stay 0, owner_id becomes to and
\* the history gains the entry of the transfer; nothing else of the property
\* changes, so the next owner can hand it on the same way.
C19_ZeroShareHandOver ==
    \A id \in DOMAIN properties, to \in Principals :
        properties[id].tokenized_shares = 0 =>
            LET P == properties[id]
                out == transfer_ownership(P.owner_id, id, to, 0)
                Q == out.properties[id]
            IN  /\ out.result = Ok(Q)
                /\ Q = [P EXCEPT
                          !.owner_id = to,
                          !.history =
                              Append(@, HistoryEntry(now,
                                                     TransferredEvent(0, to)))]
                /\ Q.tokenized_shares = 0
                /\ out.properties = [properties EXCEPT ![id] = Q]

\* a property without shares went from p1 to p2 and back, each time in a
\* transfer of 0 shares
C19_Witness ==
    \E id \in DOMAIN properties :
        /\ properties[id].tokenized_shares = 0
        /\ properties[id].owner_id = "p1"
        /\ Len(properties[id].history) = 3
        /\ properties[id].history[2].event = TransferredEvent(0, "p2")
        /\ properties[id].history[3].event = TransferredEvent(0, "p1")
        /\ result = Ok(properties[id])

\* C20: each stored property's id field is the key it is stored under, every
\* key of the properties map is below the id counter (the id add_property
\* issues next is no key of the map), and no operation changes the id field
\* of a property that stays stored.
C20_IdIsKeyBelowCounter ==
    /\ [](/\ \A id \in DOMAIN properties :
                properties[id].id = id /\ id < id_counter
          /\ allocated_id(id_counter) \notin DOMAIN properties)
    /\ [][\A id \in DOMAIN properties \cap DOMAIN properties' :
            properties'[id].id = properties[id].id]_vars

\* the second property, stored under its id 1 after the first was deleted,
\* has been updated and transferred since
C20_Witness ==
    /\ DOMAIN properties = {1}
    /\ id_counter = 2
    /\ properties[1].id = 1
    /\ Len(properties[1].history) = 3
    /\ properties[1].history[2].event = UpdatedEvent
    /\ properties[1].history[3].event[1] = "Transferred"

====
